---- MODULE Spec2Model ----
(***************************************************************************)
(* A model of the RCP packet and socket layer (luisholanda/rcp):           *)
(*   - rcp::packet     the wire-format unit (src/includes/rcp/packet.hh,   *)
(*                     src/src/rcp/packet.cc)                              *)
(*   - rcp::socket     Recv / Send / Connect and the buffer free-list      *)
(*                     (src/src/rcp/socket.cc)                             *)
(*   - the congestion window engine, of which the repository holds only    *)
(*     the declarations (src/includes/rcp/connection.hh)                   *)
(*                                                                         *)
(* Memory is modelled byte by byte: a buffer_t is an array of PACKET_SIZE   *)
(* bytes, a packet's payload an array of MAX_PKT_PAYLOAD_SIZE bytes, and   *)
(* bit-fields keep their width.  An array is written down as the function  *)
(* from the offsets of its non-zero bytes to those bytes: At reads it.     *)
(* The object layout is the one of the little-endian System V builds       *)
(* (x86-64, AArch64).                                                      *)
(***************************************************************************)
EXTENDS Integers, Sequences, FiniteSets, TLC

VARIABLES
  pkt,          \* the packet object the calls act on (Recv's target packet)
  last,         \* history: the last call, its arguments, outcome and pre-state
  flagCalls,    \* history: per flag, the last Set / SetNo call ("none" if none)
  inBuf,        \* decode input: the buffer_t handed to fromBuffer / FromBuffer
  inN,          \* decode input: the length n handed with it
  fresh,        \* the result of the static packet::fromBuffer
  mBuffers,     \* socket::mBuffers, the free-list (a sequence of heap addresses)
  heap,         \* every buffer_t the socket has allocated, by address
  terminated,   \* std::terminate was called (an exception left a noexcept function)
  mPeer,        \* the peer address of the connection socket::Connect returned
  wire,         \* the last sendto call of socket::Send: what it was handed, its outcome
  recving,      \* the socket::Recv call in progress and the buffer it holds, if any
  calls,        \* number of calls counted against the bound (MaxCalls, MaxConnects, MaxEnqueued)
  mPndgPackets, \* __cong_wndw::mPndgPackets (sent, not yet acknowledged)
  mBuffPackets, \* __cong_wndw::mBuffPackets (accepted, not yet sent)
  mNextSeqNum,  \* connection::mNextSeqNum
  lastAckNum,   \* the last acknowledgment number the connection received
  ackTimer      \* the acknowledgment timer of the window engine

vars == <<pkt, last, flagCalls, inBuf, inN, fresh, mBuffers, heap, terminated,
          mPeer, wire, recving, calls, mPndgPackets, mBuffPackets, mNextSeqNum, lastAckNum,
          ackTimer>>

(***************************************************************************)
(* Program constants.                                                      *)
(***************************************************************************)
MAX_PKT_PAYLOAD_SIZE == 1024
HEADER_SIZE == 8
PACKET_SIZE == HEADER_SIZE + MAX_PKT_PAYLOAD_SIZE
MAX_SEQ_NUM == 30720
FIN == 1
SYN == 2
ACK == 4
\* widths of the bit-fields mLength, __padd and mFlags
LENGTH_BITS == 10
PADD_BITS == 3
FLAGS_BITS == 3
\* std::uint16_t
UINT16_MAX == 65535
\* sizeof(sockaddr_in), the shortest address sendto takes on an AF_INET socket
SOCKADDR_IN_SIZE == 16
\* errno of a sendto whose address is too short
EINVAL == 22
\* size_t is wider than any integer of the model; SIZE_MAX stands for its
\* largest value. The only use the code makes of a converted negative ssize_t
\* is to compare it with HEADER_SIZE and PACKET_SIZE.
SIZE_MAX == 2147483646

(***************************************************************************)
(* Bounds of the model.                                                    *)
(***************************************************************************)
\* socket calls (Recv, Send) in one behaviour
MaxCalls == 2
\* socket::Connect calls in one behaviour
MaxConnects == 1
\* application packets accepted by the window engine in one behaviour
MaxEnqueued == 3

(***************************************************************************)
(* Bit arithmetic on naturals.                                             *)
(***************************************************************************)
RECURSIVE BitAnd(_, _)
BitAnd(a, b) ==
  IF a = 0 \/ b = 0 THEN 0
  ELSE (a % 2) * (b % 2) + 2 * BitAnd(a \div 2, b \div 2)

RECURSIVE BitOr(_, _)
BitOr(a, b) ==
  IF a = 0 THEN b
  ELSE IF b = 0 THEN a
  ELSE (IF a % 2 = 1 \/ b % 2 = 1 THEN 1 ELSE 0) + 2 * BitOr(a \div 2, b \div 2)

\* a value stored into an unsigned bit-field of the given width
Truncate(v, bits) == v % (2 ^ bits)

(***************************************************************************)
(* Byte arrays: the function from the offsets of the non-zero bytes to     *)
(* those bytes; every other byte of the array is zero.                     *)
(***************************************************************************)
\* the byte at offset i
At(m, i) == IF i \in DOMAIN m THEN m[i] ELSE 0

\* the array whose byte at each offset i of S is F(i), and zero elsewhere
Array(S, F(_)) == [i \in {j \in S : F(j) # 0} |-> F(i)]

ZeroBytes == Array({}, LAMBDA i : 0)

(***************************************************************************)
(* rcp::packet                                                             *)
(***************************************************************************)
ZeroPayload == ZeroBytes

\* packet::make: std::make_unique<packet>() value-initialises the object, so
\* every member, bit-fields and payload included, is zero.
make ==
  [mSeqNum |-> 0, mAckNum |-> 0, window |-> 0, mLength |-> 0, padd |-> 0,
   mFlags |-> 0, mPayload |-> ZeroPayload]

SequenceNumber(p) == p.mSeqNum
AcknowledgmentNumber(p) == p.mAckNum
IsFin(p) == BitAnd(p.mFlags, FIN) # 0
IsSyn(p) == BitAnd(p.mFlags, SYN) # 0
IsAck(p) == BitAnd(p.mFlags, ACK) # 0
Length(p) == p.mLength
Payload(p) == p.mPayload

\* The setters that throw return the packet and whether they threw.
SetSequenceNumberLE(p, seqNum) ==
  IF seqNum <= MAX_SEQ_NUM
    THEN [pkt |-> [p EXCEPT !.mSeqNum = seqNum], threw |-> FALSE]
    ELSE [pkt |-> p, threw |-> TRUE]

SetSequenceNumber(p, seqNum) ==
  IF seqNum < MAX_SEQ_NUM
    THEN [pkt |-> [p EXCEPT !.mSeqNum = seqNum], threw |-> FALSE]
    ELSE [pkt |-> p, threw |-> TRUE]

SetAcknowledgmentNumber(p, ackNum) ==
  IF ackNum < MAX_SEQ_NUM
    THEN [pkt |-> [p EXCEPT !.mAckNum = ackNum], threw |-> FALSE]
    ELSE [pkt |-> p, threw |-> TRUE]

\* mLength is a 10-bit bit-field: the store keeps the low 10 bits of length.
SetLength(p, length) ==
  IF length <= MAX_PKT_PAYLOAD_SIZE
    THEN [pkt |-> [p EXCEPT !.mLength = Truncate(length, LENGTH_BITS)],
          threw |-> FALSE]
    ELSE [pkt |-> p, threw |-> TRUE]

\* mFlags |= flag, stored into the 3-bit bit-field
SetFin(p) == [p EXCEPT !.mFlags = Truncate(BitOr(p.mFlags, FIN), FLAGS_BITS)]
SetSyn(p) == [p EXCEPT !.mFlags = Truncate(BitOr(p.mFlags, SYN), FLAGS_BITS)]
SetAck(p) == [p EXCEPT !.mFlags = Truncate(BitOr(p.mFlags, ACK), FLAGS_BITS)]

\* mFlags &= ~flag: of the bits of ~flag only the low FLAGS_BITS meet mFlags
NotFlag(flag) == (2 ^ FLAGS_BITS - 1) - flag

SetNoFinAll(p) == [p EXCEPT !.mFlags = 0]

SetNoFin(p) == [p EXCEPT !.mFlags = BitAnd(p.mFlags, NotFlag(FIN))]
SetNoSyn(p) == [p EXCEPT !.mFlags = BitAnd(p.mFlags, NotFlag(SYN))]
SetNoAck(p) == [p EXCEPT !.mFlags = BitAnd(p.mFlags, NotFlag(ACK))]

Clear(p) == [p EXCEPT !.mLength = 0, !.mFlags = 0, !.mSeqNum = 0, !.mAckNum = 0]

\* The header fields of a packet (everything but the payload bytes).
Fields(p) ==
  [seq |-> SequenceNumber(p), ack |-> AcknowledgmentNumber(p),
   isAck |-> IsAck(p), isSyn |-> IsSyn(p), isFin |-> IsFin(p),
   length |-> Length(p)]

(***************************************************************************)
(* Decoding.  A buffer_t is an array of PACKET_SIZE bytes.                 *)
(* Both decoders are noexcept: an exception thrown by a setter inside them *)
(* ends the process through std::terminate.                                *)
(***************************************************************************)
\* (static_cast<std::uint16_t>(hi) << 8) + lo, converted to std::uint16_t
BigEndian16(hi, lo) == (hi * 256 + lo) % (UINT16_MAX + 1)

\* std::memcpy(Payload(), buffer + HEADER_SIZE, len)
CopyPayload(p, buffer, len) ==
  [p EXCEPT !.mPayload =
     Array(0 .. MAX_PKT_PAYLOAD_SIZE - 1,
           LAMBDA i : IF i < len THEN At(buffer, HEADER_SIZE + i)
                                 ELSE At(p.mPayload, i))]

\* packet::fromBuffer (static): "nullptr", a "packet", or "terminate"
fromBuffer(buffer, n) ==
  IF n < HEADER_SIZE \/ n > PACKET_SIZE
    THEN [status |-> "nullptr"]
    ELSE
      LET seqNum == BigEndian16(At(buffer, 0), At(buffer, 1))
          ackNum == BigEndian16(At(buffer, 2), At(buffer, 3))
      IN IF seqNum > MAX_SEQ_NUM \/ ackNum > MAX_SEQ_NUM
           THEN [status |-> "nullptr"]
           ELSE
             LET flags == At(buffer, 7)
                 r1 == SetSequenceNumber(make, seqNum)
                 r2 == SetAcknowledgmentNumber(r1.pkt, ackNum)
                 p3 == IF BitAnd(flags, ACK) # 0 THEN SetAck(r2.pkt) ELSE r2.pkt
                 p4 == IF BitAnd(flags, FIN) # 0 THEN SetFin(p3) ELSE p3
                 p5 == IF BitAnd(flags, SYN) # 0 THEN SetSyn(p4) ELSE p4
                 r6 == SetLength(p5, n - HEADER_SIZE)
                 len == Length(r6.pkt)
                 p7 == IF len # 0 THEN CopyPayload(r6.pkt, buffer, len) ELSE r6.pkt
             IN IF r1.threw \/ r2.threw \/ r6.threw
                  THEN [status |-> "terminate"]
                  ELSE [status |-> "packet", pkt |-> p7]

\* packet::FromBuffer (member): the packet afterwards, and whether the call
\* ended in std::terminate (the packet is then as the throwing setter left it)
FromBuffer(p, buffer, n) ==
  IF n < HEADER_SIZE \/ n > PACKET_SIZE
    THEN [pkt |-> p, terminated |-> FALSE]
    ELSE
      LET seqNum == BigEndian16(At(buffer, 0), At(buffer, 1))
          ackNum == BigEndian16(At(buffer, 2), At(buffer, 3))
      IN IF seqNum > MAX_SEQ_NUM \/ ackNum > MAX_SEQ_NUM
           THEN [pkt |-> p, terminated |-> FALSE]
           ELSE
             LET flags == At(buffer, 7)
                 r1 == SetSequenceNumber(p, seqNum)
                 r2 == SetAcknowledgmentNumber(r1.pkt, ackNum)
                 p3 == IF BitAnd(flags, ACK) # 0 THEN SetAck(r2.pkt) ELSE r2.pkt
                 p4 == IF BitAnd(flags, FIN) # 0 THEN SetFin(p3) ELSE p3
                 p5 == IF BitAnd(flags, SYN) # 0 THEN SetSyn(p4) ELSE p4
                 r6 == SetLength(p5, n - HEADER_SIZE)
                 len == Length(r6.pkt)
                 p7 == IF len # 0 THEN CopyPayload(r6.pkt, buffer, len) ELSE r6.pkt
             IN IF r1.threw THEN [pkt |-> r1.pkt, terminated |-> TRUE]
                ELSE IF r2.threw THEN [pkt |-> r2.pkt, terminated |-> TRUE]
                ELSE IF r6.threw THEN [pkt |-> r6.pkt, terminated |-> TRUE]
                ELSE [pkt |-> p7, terminated |-> FALSE]

(***************************************************************************)
(* Values of the variables a specification does not use.                   *)
(***************************************************************************)
NoCall == [op |-> "none"]
NoFlagCalls == [f \in {"FIN", "SYN", "ACK"} |-> "none"]
NotCalled == [status |-> "not called"]
NoConnection == [status |-> "none"]
NoDatagram == [status |-> "none"]
NoRecv == [status |-> "idle"]

PacketIdle ==
  /\ flagCalls = NoFlagCalls
PacketUnchanged == UNCHANGED <<pkt, flagCalls>>

DecodeIdle ==
  /\ inBuf = ZeroBytes
  /\ inN = 0
  /\ fresh = NotCalled
DecodeUnchanged == UNCHANGED <<inBuf, inN, fresh>>

SocketIdle ==
  /\ mBuffers = <<>>
  /\ heap = <<>>
  /\ mPeer = NoConnection
  /\ wire = NoDatagram
  /\ recving = NoRecv
  /\ calls = 0
SocketUnchanged == UNCHANGED <<mBuffers, heap, mPeer, wire, recving, calls>>

WindowIdle ==
  /\ mPndgPackets = <<>>
  /\ mBuffPackets = <<>>
  /\ mNextSeqNum = 0
  /\ lastAckNum = 0
  /\ ackTimer = "off"
WindowUnchanged ==
  UNCHANGED <<mPndgPackets, mBuffPackets, mNextSeqNum, lastAckNum, ackTimer>>

(***************************************************************************)
(* SpecPacket: one packet, from packet::make, under any sequence of calls  *)
(* of its setters.  A setter's exception is caught by the caller.          *)
(***************************************************************************)
\* arguments of the number setters (std::uint16_t)
NumberInputs == {0, 10, MAX_SEQ_NUM - 1, MAX_SEQ_NUM, MAX_SEQ_NUM + 1, UINT16_MAX}
\* arguments of SetLength (std::uint16_t)
LengthInputs == {0, 10, MAX_PKT_PAYLOAD_SIZE - 1, MAX_PKT_PAYLOAD_SIZE,
                 MAX_PKT_PAYLOAD_SIZE + 1, UINT16_MAX}

InitPacket ==
  /\ pkt = make
  /\ last = NoCall
  /\ terminated = FALSE
  /\ PacketIdle /\ DecodeIdle /\ SocketIdle /\ WindowIdle

Called(op, arg, threw) == [op |-> op, arg |-> arg, threw |-> threw, pre |-> pkt]

CallSetSequenceNumber ==
  \E v \in NumberInputs :
    LET r == SetSequenceNumber(pkt, v)
    IN /\ pkt' = r.pkt
       /\ last' = Called("SetSequenceNumber", v, r.threw)
       /\ UNCHANGED <<flagCalls, terminated>>
       /\ DecodeUnchanged /\ SocketUnchanged /\ WindowUnchanged

CallSetAcknowledgmentNumber ==
  \E v \in NumberInputs :
    LET r == SetAcknowledgmentNumber(pkt, v)
    IN /\ pkt' = r.pkt
       /\ last' = Called("SetAcknowledgmentNumber", v, r.threw)
       /\ UNCHANGED <<flagCalls, terminated>>
       /\ DecodeUnchanged /\ SocketUnchanged /\ WindowUnchanged

CallSetLength ==
  \E v \in LengthInputs :
    LET r == SetLength(pkt, v)
    IN /\ pkt' = r.pkt
       /\ last' = Called("SetLength", v, r.threw)
       /\ UNCHANGED <<flagCalls, terminated>>
       /\ DecodeUnchanged /\ SocketUnchanged /\ WindowUnchanged

FlagCall(op, flag, how, p) ==
  /\ pkt' = p
  /\ last' = Called(op, flag, FALSE)
  /\ flagCalls' = [flagCalls EXCEPT ![flag] = how]
  /\ UNCHANGED terminated
  /\ DecodeUnchanged /\ SocketUnchanged /\ WindowUnchanged

CallSetFin == FlagCall("SetFin", "FIN", "set", SetFin(pkt))
CallSetSyn == FlagCall("SetSyn", "SYN", "set", SetSyn(pkt))
CallSetAck == FlagCall("SetAck", "ACK", "set", SetAck(pkt))
CallSetNoFin == FlagCall("SetNoFin", "FIN", "unset", SetNoFin(pkt))
CallSetNoSyn == FlagCall("SetNoSyn", "SYN", "unset", SetNoSyn(pkt))
CallSetNoAck == FlagCall("SetNoAck", "ACK", "unset", SetNoAck(pkt))

\* Clear zeroes the flags: the history of flag calls starts anew.
CallClear ==
  /\ pkt' = Clear(pkt)
  /\ last' = Called("Clear", 0, FALSE)
  /\ flagCalls' = NoFlagCalls
  /\ UNCHANGED terminated
  /\ DecodeUnchanged /\ SocketUnchanged /\ WindowUnchanged

NextPacket ==
  \/ CallSetSequenceNumber
  \/ CallSetAcknowledgmentNumber
  \/ CallSetLength
  \/ CallSetFin
  \/ CallSetSyn
  \/ CallSetAck
  \/ CallSetNoFin
  \/ CallSetNoSyn
  \/ CallSetNoAck
  \/ CallClear

SpecPacket == InitPacket /\ [][NextPacket]_vars

(***************************************************************************)
(* Inputs of the decoders: byte strings laid out as the wire format says.  *)
(***************************************************************************)
\* The byte at offset i of a datagram with the given 16-bit sequence and
\* acknowledgment numbers (big-endian), flags byte b7, and every other byte
\* (reserved bytes 4-6 and payload) drawn from fill, varying with the offset.
WireByte(i, seq16, ack16, b7, fill) ==
  CASE i = 0 -> seq16 \div 256
    [] i = 1 -> seq16 % 256
    [] i = 2 -> ack16 \div 256
    [] i = 3 -> ack16 % 256
    [] i = 7 -> b7
    [] OTHER -> IF fill = 0 THEN 0 ELSE (fill + i) % 256

\* a datagram of len bytes
Datagram(seq16, ack16, b7, fill, len) ==
  [len |-> len,
   bytes |-> Array(0 .. len - 1, LAMBDA i : WireByte(i, seq16, ack16, b7, fill))]

\* a whole buffer_t holding such bytes
Buffer(seq16, ack16, b7, fill) == Datagram(seq16, ack16, b7, fill, PACKET_SIZE).bytes

SeqInputs == {0, 15, 3840, MAX_SEQ_NUM - 1, MAX_SEQ_NUM, MAX_SEQ_NUM + 1, UINT16_MAX}
AckInputs == {0, MAX_SEQ_NUM - 1, MAX_SEQ_NUM, MAX_SEQ_NUM + 1}
FlagByteInputs == {0, SYN, ACK + FIN, ACK + SYN + FIN, 248}
FillInputs == {0, 255}
\* lengths handed to the decoders (size_t)
LengthNInputs == {0, HEADER_SIZE - 1, HEADER_SIZE, HEADER_SIZE + 1, HEADER_SIZE + 2,
                  PACKET_SIZE - 1, PACKET_SIZE, PACKET_SIZE + 1, SIZE_MAX}

BufferInputs ==
  {Buffer(s, a, f, x) : s \in SeqInputs, a \in AckInputs, f \in FlagByteInputs,
                        x \in FillInputs}

\* A packet as its owner can have made it: from make, through the setters and
\* through writes to the payload.
Built(seqNum, ackNum, flags, length, byte) ==
  LET p1 == SetSequenceNumber(make, seqNum).pkt
      p2 == SetAcknowledgmentNumber(p1, ackNum).pkt
      p3 == IF BitAnd(flags, ACK) # 0 THEN SetAck(p2) ELSE p2
      p4 == IF BitAnd(flags, SYN) # 0 THEN SetSyn(p3) ELSE p3
      p5 == IF BitAnd(flags, FIN) # 0 THEN SetFin(p4) ELSE p4
      p6 == [p5 EXCEPT !.mPayload =
               Array(0 .. MAX_PKT_PAYLOAD_SIZE - 1,
                     LAMBDA i : IF i < length THEN byte ELSE 0)]
  IN SetLength(p6, length).pkt

\* states of the packet a decoder is asked to fill
TargetInputs ==
  {make,
   Built(7, 9, ACK, 3, 17),
   Built(MAX_SEQ_NUM - 1, MAX_SEQ_NUM - 1, ACK + SYN + FIN, MAX_PKT_PAYLOAD_SIZE - 1, 34)}

(***************************************************************************)
(* SpecDecode: one input (buffer, n) and one target packet; the static     *)
(* fromBuffer and the member FromBuffer are each called once on it.        *)
(***************************************************************************)
InitDecode ==
  /\ pkt \in TargetInputs
  /\ inBuf \in BufferInputs
  /\ inN \in LengthNInputs
  /\ fresh = NotCalled
  /\ last = NoCall
  /\ terminated = FALSE
  /\ PacketIdle /\ SocketIdle /\ WindowIdle

CallfromBuffer ==
  /\ ~terminated
  /\ fresh = NotCalled
  /\ fresh' = fromBuffer(inBuf, inN)
  /\ terminated' = (fresh'.status = "terminate")
  /\ UNCHANGED <<pkt, last, flagCalls, inBuf, inN>>
  /\ SocketUnchanged /\ WindowUnchanged

CallFromBuffer ==
  /\ ~terminated
  /\ last = NoCall
  /\ LET r == FromBuffer(pkt, inBuf, inN)
     IN /\ pkt' = r.pkt
        /\ terminated' = r.terminated
        /\ last' = [op |-> "FromBuffer", pre |-> pkt, terminated |-> r.terminated]
  /\ UNCHANGED <<flagCalls, inBuf, inN, fresh>>
  /\ SocketUnchanged /\ WindowUnchanged

NextDecode ==
  \/ CallfromBuffer
  \/ CallFromBuffer

SpecDecode == InitDecode /\ [][NextDecode]_vars

(***************************************************************************)
(* rcp::socket                                                             *)
(***************************************************************************)
\* The PACKET_SIZE bytes at packet::begin(): the object itself.  mSeqNum,
\* mAckNum and __window are 16-bit members in host (little-endian) order at
\* offsets 0, 2 and 4; the bit-fields mLength:10, __padd:3 and mFlags:3 share
\* the 16 bits at offset 6, mLength lowest; mPayload starts at offset 8.
BitFields(p) ==
  p.mLength + (2 ^ LENGTH_BITS) * p.padd + (2 ^ (LENGTH_BITS + PADD_BITS)) * p.mFlags

ObjectByte(p, i) ==
  CASE i = 0 -> p.mSeqNum % 256
    [] i = 1 -> p.mSeqNum \div 256
    [] i = 2 -> p.mAckNum % 256
    [] i = 3 -> p.mAckNum \div 256
    [] i = 4 -> p.window % 256
    [] i = 5 -> p.window \div 256
    [] i = 6 -> BitFields(p) % 256
    [] i = 7 -> BitFields(p) \div 256
    [] OTHER -> At(p.mPayload, i - HEADER_SIZE)

begin(p) == Array(0 .. PACKET_SIZE - 1, LAMBDA i : ObjectByte(p, i))

\* packet::makeBuffer: new buffer_t[1].  No byte of it is initialised.  A
\* buffer of the heap is its leading bytes that a recvfrom has written, and
\* how many they are; the bytes from there on are indeterminate and have no
\* value here.
makeBuffer == [written |-> 0, bytes |-> ZeroBytes]

\* socket::AcquireBuffer on free-list pool and heap hp: the address of the
\* buffer handed out, the free-list and the heap afterwards
AcquireBuffer(pool, hp) ==
  IF pool = <<>>
    THEN [buff |-> Len(hp) + 1, mBuffers |-> pool, heap |-> Append(hp, makeBuffer)]
    ELSE [buff |-> pool[Len(pool)],
          mBuffers |-> SubSeq(pool, 1, Len(pool) - 1),
          heap |-> hp]

\* socket::ReleaseBuffer
ReleaseBuffer(pool, buff) == Append(pool, buff)

\* recvfrom into a buffer of PACKET_SIZE bytes: a failed read returns -1 and
\* leaves the buffer alone; a datagram is cut to PACKET_SIZE bytes and
\* written over the first n bytes, the bytes after them staying as they were
recvfrom(buffer, r) ==
  IF r.len < 0
    THEN [n |-> -1, buffer |-> buffer]
    ELSE LET n == IF r.len > PACKET_SIZE THEN PACKET_SIZE ELSE r.len
             written == IF n > buffer.written THEN n ELSE buffer.written
         IN [n |-> n,
             buffer |-> [written |-> written,
                         bytes |-> Array(0 .. written - 1,
                                         LAMBDA i : IF i < n THEN At(r.bytes, i)
                                                             ELSE At(buffer.bytes, i))]]

\* the conversion of recvfrom's ssize_t result to FromBuffer's size_t n
SizeT(n) == IF n < 0 THEN SIZE_MAX + 1 + n ELSE n

\* what the substrate can hand to one recvfrom
ReadFailure == [len |-> -1]
DatagramInputs ==
  {Datagram(s, a, f, x, l) :
     s \in {15, MAX_SEQ_NUM}, a \in {0, MAX_SEQ_NUM}, f \in {0, ACK + FIN},
     x \in {0, 255}, l \in {0, HEADER_SIZE - 1, HEADER_SIZE, HEADER_SIZE + 2, PACKET_SIZE + 1}}
\* packets handed to Send
SendInputs ==
  {make,
   Built(1, 0, 0, 0, 0),
   Built(15, 0, 0, 2, 255),
   Built(120, 5, FIN, 0, 0),
   Built(MAX_SEQ_NUM - 1, MAX_SEQ_NUM - 1, ACK + SYN + FIN, MAX_PKT_PAYLOAD_SIZE - 1, 34)}

InitSocket ==
  /\ pkt \in {make, Built(7, 9, ACK, 3, 17)}
  /\ last = NoCall
  /\ terminated = FALSE
  /\ PacketIdle /\ DecodeIdle /\ SocketIdle /\ WindowIdle

\* socket::Recv(packet, peer), the packet being pkt, up to its wait in
\* recvfrom: the call acquires its buffer and blocks until the substrate has
\* something for it.  The calls of Recv are serialized: one is in progress at
\* most (the free-list has no lock).
RecvEnter ==
  /\ ~terminated
  /\ calls < MaxCalls
  /\ recving = NoRecv
  /\ \E acq \in {AcquireBuffer(mBuffers, heap)} :
       /\ mBuffers' = acq.mBuffers
       /\ heap' = acq.heap
       /\ recving' = [status |-> "in recvfrom", buff |-> acq.buff]
  /\ last' = [op |-> "RecvEnter", pre |-> pkt]
  /\ calls' = calls + 1
  /\ UNCHANGED <<pkt, flagCalls, terminated, mPeer, wire>>
  /\ DecodeUnchanged /\ WindowUnchanged

\* socket::Recv from the return of recvfrom on: the bytes read are decoded
\* into pkt and the buffer is released.  rd is recvfrom's result, dec
\* FromBuffer's; when FromBuffer ends in std::terminate the buffer stays held.
\* FromBuffer reads no byte at or after n, and none at all for the n of a
\* failed read, so it reads written bytes only.
RecvReturn ==
  /\ ~terminated
  /\ recving # NoRecv
  /\ \E r \in DatagramInputs \cup {ReadFailure} :
       \E rd \in {recvfrom(heap[recving.buff], r)} :
         \E dec \in {FromBuffer(pkt, rd.buffer.bytes, SizeT(rd.n))} :
           /\ heap' = [heap EXCEPT ![recving.buff] = rd.buffer]
           /\ pkt' = dec.pkt
           /\ terminated' = dec.terminated
           /\ mBuffers' = IF dec.terminated THEN mBuffers
                                            ELSE ReleaseBuffer(mBuffers, recving.buff)
           /\ recving' = IF dec.terminated THEN recving ELSE NoRecv
           /\ last' = [op |-> "Recv", buff |-> recving.buff, n |-> rd.n, pre |-> pkt,
                       terminated |-> dec.terminated,
                       ret |-> IF rd.n < 0 THEN "errno of the read" ELSE "errno as it was"]
  /\ UNCHANGED <<flagCalls, mPeer, wire, calls>>
  /\ DecodeUnchanged /\ WindowUnchanged

\* sendto on the AF_INET datagram socket: an address shorter than a
\* sockaddr_in is refused with EINVAL and nothing leaves the socket
sendto(bytes, len, addrlen) ==
  IF addrlen < SOCKADDR_IN_SIZE
    THEN [n |-> -1, errno |-> EINVAL, status |-> "refused"]
    ELSE [n |-> len, errno |-> 0, status |-> "sent"]

\* socket::Send(packet, peer): sendto is handed PACKET_SIZE bytes from
\* packet.begin() and an address length of 1; Send returns errno.  It takes
\* no buffer and may run while a Recv waits.
Send ==
  /\ ~terminated
  /\ calls < MaxCalls
  /\ \E p \in SendInputs :
       \E out \in {sendto(begin(p), PACKET_SIZE, 1)} :
         /\ wire' = [status |-> out.status, bytes |-> begin(p), len |-> PACKET_SIZE,
                     addrlen |-> 1, from |-> p]
         /\ last' = [op |-> "Send", pre |-> pkt, n |-> out.n, ret |-> out.errno]
  /\ calls' = calls + 1
  /\ UNCHANGED <<pkt, flagCalls, terminated, mBuffers, heap, mPeer, recving>>
  /\ DecodeUnchanged /\ WindowUnchanged

NextSocket ==
  \/ RecvEnter
  \/ RecvReturn
  \/ Send

SpecSocket == InitSocket /\ [][NextSocket]_vars

(***************************************************************************)
(* socket::Connect.  The call reads and writes nothing of the socket: it   *)
(* builds a connection and returns it.  Its specification starts from the  *)
(* sockets it can be called on and follows the call alone.                 *)
(***************************************************************************)
\* the values an uninitialised std::uint16_t member can hold
IndeterminateInputs == 0 .. UINT16_MAX
\* in_addr_t and in_port_t arguments of Connect
IpInputs == {0, 16777343}
PortInputs == {0, 80, 8080}

\* what Send leaves behind for packet p
Refused(p) ==
  [status |-> sendto(begin(p), PACKET_SIZE, 1).status, bytes |-> begin(p),
   len |-> PACKET_SIZE, addrlen |-> 1, from |-> p]

\* the sockets Connect is called on: with no Recv in progress or with one
\* waiting in recvfrom with the socket's only buffer, with no Send made or
\* with one refused
InitConnect ==
  /\ pkt = make
  /\ last = NoCall
  /\ terminated = FALSE
  /\ mPeer = NoConnection
  /\ calls = 0
  /\ \/ /\ mBuffers = <<>>
        /\ heap = <<>>
        /\ recving = NoRecv
     \/ \E acq \in {AcquireBuffer(<<>>, <<>>)} :
          /\ mBuffers = acq.mBuffers
          /\ heap = acq.heap
          /\ recving = [status |-> "in recvfrom", buff |-> acq.buff]
  /\ wire \in {NoDatagram, Refused(Built(120, 5, FIN, 0, 0))}
  /\ PacketIdle /\ DecodeIdle /\ WindowIdle

\* socket::Connect(ip, port): the connection is built on a zeroed sockaddr_in;
\* its constructor initialises mSocket and mPeer only, so mNextSeqNum is
\* indeterminate.  It may run while a Recv waits.
Connect ==
  /\ ~terminated
  /\ calls < MaxConnects
  /\ \E ip \in IpInputs, port \in PortInputs :
       /\ mPeer' = [status |-> "connected",
                    peer |-> [sin_family |-> 0, sin_port |-> 0, sin_addr |-> 0]]
       /\ last' = [op |-> "Connect", ip |-> ip, port |-> port, pre |-> pkt,
                   wireBefore |-> wire]
  /\ mNextSeqNum' \in IndeterminateInputs
  /\ calls' = calls + 1
  /\ UNCHANGED <<pkt, flagCalls, terminated, mBuffers, heap, wire, recving>>
  /\ UNCHANGED <<mPndgPackets, mBuffPackets, lastAckNum, ackTimer>>
  /\ DecodeUnchanged

NextConnect == Connect

SpecConnect == InitConnect /\ [][NextConnect]_vars

(***************************************************************************)
(* The congestion window engine.  connection.hh declares __cong_algo's     *)
(* five hooks and __cong_wndw's two queues and defines none of them; what  *)
(* follows is the engine the design describes, with a pending window of    *)
(* one packet.  A queued packet is its sequence number and payload length. *)
(***************************************************************************)
\* the capacity of the pending window
PendingCapacity == 1

\* a is before b on the circle of sequence numbers (forward distance test)
Before(a, b) ==
  LET d == (b - a + MAX_SEQ_NUM) % MAX_SEQ_NUM
  IN d # 0 /\ d < MAX_SEQ_NUM \div 2

\* __cong_algo::CanSendPacket
CanSendPacket == Len(mPndgPackets) < PendingCapacity

\* __cong_algo::ResendFirstUnackedPacket
ResendFirstUnackedPacket == ackTimer = "expired" /\ mPndgPackets # <<>>

\* the packets of pending that acknowledgment number ackNum leaves unacknowledged
RECURSIVE Unacked(_, _)
Unacked(pending, ackNum) ==
  IF pending = <<>> THEN <<>>
  ELSE IF Before(Head(pending).seq, ackNum) THEN Unacked(Tail(pending), ackNum)
  ELSE <<Head(pending)>> \o Unacked(Tail(pending), ackNum)

AckRecvAnyway(pending, ackNum, repeated) == Unacked(pending, ackNum)

\* __cong_algo::AckRecv(repeated), for acknowledgment number ackNum: the pending
\* queue afterwards.  A repeated acknowledgment removes nothing.
AckRecv(pending, ackNum, repeated) ==
  IF repeated THEN pending ELSE Unacked(pending, ackNum)

\* payload lengths of the packets the application queues
QueuedLengthInputs == {1, HEADER_SIZE}
\* initial sequence numbers
IsnInputs == {0, MAX_SEQ_NUM - 3}
\* acknowledgment numbers received
AckNumberInputs == {0, 1, 2, 5, HEADER_SIZE, MAX_SEQ_NUM - 3, MAX_SEQ_NUM - 2}

InitWindow ==
  /\ pkt = make
  /\ last = NoCall
  /\ terminated = FALSE
  /\ mPndgPackets = <<>>
  /\ mBuffPackets = <<>>
  /\ mNextSeqNum \in IsnInputs
  /\ lastAckNum = mNextSeqNum
  /\ ackTimer = "off"
  /\ PacketIdle /\ DecodeIdle /\ SocketIdle

WindowCall(op) ==
  [op |-> op, pending |-> mPndgPackets, couldSend |-> CanSendPacket]

\* the application hands the connection a payload: it is buffered
Queue ==
  /\ calls < MaxEnqueued
  /\ \E length \in QueuedLengthInputs :
       /\ mBuffPackets' = Append(mBuffPackets, [seq |-> mNextSeqNum, len |-> length])
       /\ mNextSeqNum' = (mNextSeqNum + length) % MAX_SEQ_NUM
  /\ calls' = calls + 1
  /\ last' = WindowCall("Queue")
  /\ UNCHANGED <<pkt, flagCalls, terminated, mPndgPackets, lastAckNum, ackTimer,
                 mBuffers, heap, mPeer, wire, recving>>
  /\ DecodeUnchanged

\* the connection sends the oldest buffered packet when the engine admits it,
\* and notifies the engine: __cong_algo::PacketSent
PacketSent ==
  /\ CanSendPacket
  /\ mBuffPackets # <<>>
  /\ mPndgPackets' = Append(mPndgPackets, Head(mBuffPackets))
  /\ mBuffPackets' = Tail(mBuffPackets)
  /\ ackTimer' = "armed"
  /\ last' = WindowCall("PacketSent")
  /\ UNCHANGED <<pkt, flagCalls, terminated, mNextSeqNum, lastAckNum>>
  /\ DecodeUnchanged /\ SocketUnchanged

\* an acknowledgment arrives; it is repeated when its number is the one of
\* the acknowledgment before it
CallAckRecv ==
  /\ \E ackNum \in AckNumberInputs :
       LET repeated == ackNum = lastAckNum
       IN /\ mPndgPackets' = AckRecv(mPndgPackets, ackNum, repeated)
          /\ lastAckNum' = ackNum
          /\ last' = [op |-> "AckRecv", pending |-> mPndgPackets,
                      couldSend |-> CanSendPacket, ackNum |-> ackNum,
                      repeated |-> repeated]
  /\ UNCHANGED <<pkt, flagCalls, terminated, mBuffPackets, mNextSeqNum, ackTimer>>
  /\ DecodeUnchanged /\ SocketUnchanged

\* the acknowledgment timer runs out
Timeout ==
  /\ ackTimer = "armed"
  /\ ackTimer' = "expired"
  /\ last' = WindowCall("Timeout")
  /\ UNCHANGED <<pkt, flagCalls, terminated, mPndgPackets, mBuffPackets,
                 mNextSeqNum, lastAckNum>>
  /\ DecodeUnchanged /\ SocketUnchanged

\* the timeout path: the oldest unacknowledged packet is sent again, unchanged,
\* and the timer rearmed (__cong_algo::ResetAckTimeout)
Resend ==
  /\ ResendFirstUnackedPacket
  /\ ackTimer' = "armed"
  /\ last' = WindowCall("Resend")
  /\ UNCHANGED <<pkt, flagCalls, terminated, mPndgPackets, mBuffPackets,
                 mNextSeqNum, lastAckNum>>
  /\ DecodeUnchanged /\ SocketUnchanged

\* __cong_algo::ResetAckTimeout
ResetAckTimeout ==
  /\ ackTimer # "armed"
  /\ ackTimer' = "armed"
  /\ last' = WindowCall("ResetAckTimeout")
  /\ UNCHANGED <<pkt, flagCalls, terminated, mPndgPackets, mBuffPackets,
                 mNextSeqNum, lastAckNum>>
  /\ DecodeUnchanged /\ SocketUnchanged

NextWindow ==
  \/ Queue
  \/ PacketSent
  \/ CallAckRecv
  \/ Timeout
  \/ Resend
  \/ ResetAckTimeout

SpecWindow == InitWindow /\ [][NextWindow]_vars

(***************************************************************************)
(* Properties of the packet setters (SpecPacket).                          *)
(***************************************************************************)
\* C8: for every v in [0, 30720) SetSequenceNumber(v) makes SequenceNumber()
\* return v and SetAcknowledgmentNumber(v) makes AcknowledgmentNumber() return
\* v, each leaving the other number alone; for every 16-bit v >= 30720 the
\* setter throws and both stored numbers are unchanged.
C8_NumberSetters ==
  /\ last.op = "SetSequenceNumber" =>
       /\ AcknowledgmentNumber(pkt) = AcknowledgmentNumber(last.pre)
       /\ IF last.arg < 30720
            THEN ~last.threw /\ SequenceNumber(pkt) = last.arg
            ELSE last.threw /\ SequenceNumber(pkt) = SequenceNumber(last.pre)
  /\ last.op = "SetAcknowledgmentNumber" =>
       /\ SequenceNumber(pkt) = SequenceNumber(last.pre)
       /\ IF last.arg < 30720
            THEN ~last.threw /\ AcknowledgmentNumber(pkt) = last.arg
            ELSE last.threw /\ AcknowledgmentNumber(pkt) = AcknowledgmentNumber(last.pre)

\* C8 witness: the boundary value 30720 was refused and the number set
\* before, 30719, is still stored, beside a non-zero acknowledgment number.
C8_Witness ==
  /\ last.op = "SetSequenceNumber"
  /\ last.arg = 30720
  /\ last.threw
  /\ SequenceNumber(pkt) = 30719
  /\ AcknowledgmentNumber(pkt) = 10

\* C3: for every L in [0, 1024] SetLength(L) succeeds and Length() returns L;
\* for every L > 1024 SetLength(L) throws and Length() is what it was.
C3_SetLength ==
  last.op = "SetLength" =>
    IF last.arg <= 1024
      THEN ~last.threw /\ Length(pkt) = last.arg
      ELSE last.threw /\ Length(pkt) = Length(last.pre)

\* C10: each of IsAck, IsSyn, IsFin reflects the last Set / SetNo call made for
\* that flag (false if none); a flag call changes neither the other two flags
\* nor the numbers nor the length; clearing a flag that is not set changes
\* nothing at all.
FlagOps == {"SetFin", "SetSyn", "SetAck", "SetNoFin", "SetNoSyn", "SetNoAck"}

C10_FlagsIndependent ==
  /\ IsFin(pkt) = (flagCalls["FIN"] = "set")
  /\ IsSyn(pkt) = (flagCalls["SYN"] = "set")
  /\ IsAck(pkt) = (flagCalls["ACK"] = "set")
  /\ last.op \in FlagOps =>
       /\ SequenceNumber(pkt) = SequenceNumber(last.pre)
       /\ AcknowledgmentNumber(pkt) = AcknowledgmentNumber(last.pre)
       /\ Length(pkt) = Length(last.pre)
       /\ Payload(pkt) = Payload(last.pre)
       /\ last.arg # "FIN" => IsFin(pkt) = IsFin(last.pre)
       /\ last.arg # "SYN" => IsSyn(pkt) = IsSyn(last.pre)
       /\ last.arg # "ACK" => IsAck(pkt) = IsAck(last.pre)
  /\ (last.op = "SetNoFin" /\ ~IsFin(last.pre)) => pkt = last.pre
  /\ (last.op = "SetNoSyn" /\ ~IsSyn(last.pre)) => pkt = last.pre
  /\ (last.op = "SetNoAck" /\ ~IsAck(last.pre)) => pkt = last.pre

\* C10 witness: FIN was cleared while SYN and ACK were set, on a packet with
\* non-zero numbers and length; SYN and ACK are still set.
C10_Witness ==
  /\ last.op = "SetNoFin"
  /\ IsFin(last.pre)
  /\ ~IsFin(pkt) /\ IsSyn(pkt) /\ IsAck(pkt)
  /\ SequenceNumber(pkt) = 10 /\ AcknowledgmentNumber(pkt) = 30719
  /\ Length(pkt) = 10

(***************************************************************************)
(* Properties of the decoders (SpecDecode).                                *)
(***************************************************************************)
\* the input's big-endian sequence and acknowledgment numbers
InSeq == At(inBuf, 0) * 256 + At(inBuf, 1)
InAck == At(inBuf, 2) * 256 + At(inBuf, 3)
\* the input is one the wire format rejects
InInvalid == inN < 8 \/ inN > 1032 \/ InSeq >= 30720 \/ InAck >= 30720

\* the payload bytes of p, as far as its length says
PayloadBytes(p) == Array(0 .. Length(p) - 1, LAMBDA i : At(Payload(p), i))

\* C2: fromBuffer returns nullptr, without raising or aborting, when n < 8,
\* n > 1032, or the sequence or acknowledgment number is >= 30720 (30720
\* included); for every other input it returns a packet.
C2_fromBufferRejects ==
  fresh # NotCalled =>
    IF InInvalid THEN fresh.status = "nullptr" ELSE fresh.status = "packet"

\* C4: on a valid input, and whatever the target packet held before,
\* FromBuffer leaves the target with the sequence number, acknowledgment
\* number, flags, length and payload bytes of the packet fromBuffer returns.
C4_DecodersAgree ==
  (fresh.status = "packet" /\ last.op = "FromBuffer" /\ ~InInvalid) =>
    /\ ~last.terminated
    /\ Fields(pkt) = Fields(fresh.pkt)
    /\ PayloadBytes(pkt) = PayloadBytes(fresh.pkt)

\* C5: FromBuffer on an invalid input (n < 8, n > 1032, a number >= 30720)
\* leaves the target packet exactly as it was and neither raises nor aborts.
C5_InvalidChangesNothing ==
  (last.op = "FromBuffer" /\ InInvalid) =>
    /\ ~last.terminated
    /\ pkt = last.pre

(***************************************************************************)
(* Properties of the socket (SpecSocket).                                  *)
(***************************************************************************)
\* C1: round trip.  Send transmits bytes for a valid packet p, and these
\* bytes, decoded with fromBuffer under the transmitted length, give a packet
\* with p's sequence number, acknowledgment number, flags, length and payload
\* bytes.
C1_RoundTrip ==
  wire # NoDatagram =>
    /\ wire.status = "sent"
    /\ LET d == fromBuffer(wire.bytes, wire.len)
       IN /\ d.status = "packet"
          /\ Fields(d.pkt) = Fields(wire.from)
          /\ PayloadBytes(d.pkt) = PayloadBytes(wire.from)

\* C6: after every call of Recv, whatever was read, the buffer the call acquired is
\* back in the pool, every buffer ever allocated is in the pool exactly once,
\* and at most one buffer was ever allocated.
C6_PoolNeverLeaks ==
  last.op = "Recv" =>
    /\ Len(heap) <= 1
    /\ \A b \in 1 .. Len(heap) :
         Cardinality({i \in DOMAIN mBuffers : mBuffers[i] = b}) = 1
    /\ Len(mBuffers) > 0
    /\ mBuffers[Len(mBuffers)] = last.buff

\* C7: Connect(ip, port) returns a connection whose peer is (ip, port), and
\* hands no datagram to the substrate.
C7_ConnectPeer ==
  last.op = "Connect" =>
    /\ mPeer.status = "connected"
    /\ mPeer.peer.sin_addr = last.ip
    /\ mPeer.peer.sin_port = last.port
    /\ wire = last.wireBefore

(***************************************************************************)
(* Properties of the window engine (SpecWindow).                           *)
(***************************************************************************)
\* C9: with a pending window of one packet, once a packet was sent
\* CanSendPacket is false, and it becomes true again only by an AckRecv(false)
\* for an acknowledgment number that covers the pending packet's sequence
\* number; a repeated acknowledgment, a timeout, a resend or a timer reset
\* never re-opens the window.
C9_WindowReopensOnlyOnAck ==
  [][/\ mPndgPackets # <<>> => ~CanSendPacket
     /\ (mPndgPackets # <<>> /\ CanSendPacket') =>
          /\ last'.op = "AckRecv"
          /\ ~last'.repeated
          /\ Before(mPndgPackets[1].seq, last'.ackNum)]_vars

\* C9 witness: the sequence number before the wrap, 30717, was pending with
\* the window closed; acknowledgment number 5 re-opened it.
C9_Witness ==
  /\ last.op = "AckRecv"
  /\ ~last.repeated
  /\ last.ackNum = 5
  /\ last.pending = <<[seq |-> 30717, len |-> 8]>>
  /\ ~last.couldSend
  /\ CanSendPacket

====
